---------------------------- MODULE Spec2Model ----------------------------
(***************************************************************************)
(* State-machine model of the Italy Geospatial Explorer Python services:   *)
(*   src/python/app.py              (REST + WebSocket application)          *)
(*   src/python/api/main.py         (analysis / ML REST API)                *)
(*   src/python/spatial_analysis.py (SpatialAnalyzer)                       *)
(*   src/python/ml_models.py        (SpatialMLPredictor)                    *)
(*   src/python/database_integration.py (DatabaseIntegration)               *)
(*                                                                          *)
(* The module holds one set of variables and several specifications, one   *)
(* per subsystem: SpecWS (notification fan-out), SpecML (training and      *)
(* prediction), SpecDB (landmark CRUD) and SpecSA (spatial analysis).      *)
(* Every specification starts from Init and leaves the variables of the    *)
(* other subsystems unchanged.                                             *)
(***************************************************************************)
EXTENDS Integers, Sequences, FiniteSets, TLC

VARIABLES
    \* ---- ConnectionManager and the WebSocket handlers (app.py) ----
    active_connections, \* ConnectionManager.active_connections: list of sockets
    sock,               \* per socket: "new" | "open" | "broken" (peer gone)
    handler,            \* per socket: websocket_endpoint "none" | "running" | "ended"
    bcast,              \* the broadcast coroutine in flight (position of its for loop)
    bcastStart,         \* history: the sockets listed when the broadcast started
    bcastFailed,        \* history: the sockets whose send_json raised in this broadcast
    delivered,          \* history: the sockets that received this broadcast's message
    bcastCount,         \* number of broadcasts started
    subscribed,         \* history: per socket, the channels its client declared interest in
    \* ---- SpatialAnalyzer (spatial_analysis.py) and its endpoints (api/main.py) ----
    gdf,                \* SpatialAnalyzer.gdf: None, or the table of the last load
    saOut,              \* the last analyzer call or endpoint request and its outcome
    \* ---- SpatialMLPredictor (ml_models.py) and the train / predict endpoints ----
    deployment,         \* the application this process runs: "app" (app.py) or "api" (api/main.py)
    models,             \* SpatialMLPredictor.models: per name, the artefact held (0: none)
    scalers,            \* SpatialMLPredictor.scalers
    encoders,           \* SpatialMLPredictor.encoders
    disk,               \* the .pkl files under models/: per kind and name, the artefact (0: no file)
    run,                \* the training runs: background task and position in train_model
    resp,               \* per training request, the HTTP response given ("none": not yet)
    predOut,            \* the last predict call and its outcome
    \* ---- the geospatial_data table and its two clients ----
    table,              \* geospatial_data: per id, the stored row (NoRow: none)
    nextId,             \* the next value of the table's SERIAL id sequence
    txn,                \* DatabaseManager's connection (app.py): "idle" | "aborted"
    server,             \* the PostgreSQL server: "up" | "down"
    dbconn,             \* DatabaseManager.connection (app.py)
    iconn,              \* DatabaseIntegration.connection
    dbOut,              \* the last CRUD request or DatabaseIntegration call and its outcome
    \* ---- SpatialMLPredictor called directly (ml_models.py __main__) ----
    trained,            \* history: the train_model calls made, in order, with their outcome
    \* ---- AppStarter (start_app.py) ----
    starter             \* AppStarter.run: its position, what its checks found, how it ended

wsVars == <<active_connections, sock, handler, bcast, bcastStart, bcastFailed,
            delivered, bcastCount, subscribed>>

saVars == <<gdf, saOut>>

mlVars == <<deployment, models, scalers, encoders, disk, run, resp, predOut>>

dbVars == <<table, nextId, txn, server, dbconn, iconn, dbOut>>

tpVars == <<trained>>

stVars == <<starter>>

vars == <<wsVars, saVars, mlVars, dbVars, tpVars, stVars>>

notTP == <<wsVars, saVars, dbVars, stVars>>

notST == <<wsVars, saVars, mlVars, dbVars, tpVars>>

\* The broadcast in flight, and the rest of the ConnectionManager's state.
bcastVars == <<bcast, bcastStart, bcastFailed, delivered>>

connVars == <<active_connections, sock, handler, bcastCount, subscribed>>

\* What an action of one subsystem leaves alone. The handlers of app.py that
\* end with manager.broadcast set bcastVars themselves.
notWS == <<saVars, mlVars, dbVars, tpVars, stVars>>

notSA == <<wsVars, mlVars, dbVars, tpVars, stVars>>

notML == <<connVars, dbVars, tpVars, stVars>>

notDB == <<connVars, saVars, mlVars, tpVars, stVars>>

----------------------------------------------------------------------------
(* Bounds of the model. *)
MaxConns == 3
MaxBroadcasts == 2
MaxFeatures == 2        \* longest enumerated feature collection
MaxGrid == 2            \* largest grid cell edge, in degrees
MaxRuns == 1            \* training requests accepted
MaxRows == 2            \* ids the table's sequence hands out
MaxTrainings == 2       \* direct train_model calls followed

----------------------------------------------------------------------------
(* Generic helpers. *)
Range(s) == {s[i] : i \in 1..Len(s)}

Min(a, b) == IF a <= b THEN a ELSE b

Max(a, b) == IF a >= b THEN a ELSE b

\* Python list.remove(x): drops the first occurrence of x (x must be present).
RECURSIVE ListRemove(_, _)
ListRemove(s, x) ==
    IF s = <<>> THEN <<>>
    ELSE IF Head(s) = x THEN Tail(s)
    ELSE <<Head(s)>> \o ListRemove(Tail(s), x)

----------------------------------------------------------------------------
(* ConnectionManager and websocket_endpoint (app.py 128-148, 325-342).     *)

Conns == 1..MaxConns

EventTypes == {"landmark_created", "landmark_updated", "landmark_deleted",
               "analysis_completed", "model_training_completed",
               "model_training_failed"}

BcastIdle == [pc |-> "idle", idx |-> 0, to |-> 0, msg |-> "none"]

WsInit ==
    /\ active_connections = <<>>
    /\ sock = [c \in Conns |-> "new"]
    /\ handler = [c \in Conns |-> "none"]
    /\ bcast = BcastIdle
    /\ bcastStart = {}
    /\ bcastFailed = {}
    /\ delivered = {}
    /\ bcastCount = 0
    /\ subscribed = [c \in Conns |-> {}]

\* websocket_endpoint entry: manager.connect accepts and appends the socket.
Connect(c) ==
    /\ sock[c] = "new"
    /\ sock' = [sock EXCEPT ![c] = "open"]
    /\ handler' = [handler EXCEPT ![c] = "running"]
    /\ active_connections' = Append(active_connections, c)
    /\ UNCHANGED <<bcast, bcastStart, bcastFailed, delivered, bcastCount>>
    /\ UNCHANGED <<subscribed, notWS>>

\* The peer goes away; the server has not noticed yet.
ClientDrop(c) ==
    /\ sock[c] = "open"
    /\ sock' = [sock EXCEPT ![c] = "broken"]
    /\ UNCHANGED <<active_connections, handler, bcast, bcastStart, bcastFailed,
                   delivered, bcastCount>>
    /\ UNCHANGED <<subscribed, notWS>>

\* ConnectionManager.disconnect: remove the socket if it is listed.
Disconnected(list, c) ==
    IF c \in Range(list) THEN ListRemove(list, c) ELSE list

\* websocket_endpoint: receive_text raises WebSocketDisconnect, the handler
\* calls manager.disconnect and ends.
HandlerDisconnect(c) ==
    /\ handler[c] = "running"
    /\ sock[c] = "broken"
    /\ handler' = [handler EXCEPT ![c] = "ended"]
    /\ active_connections' = Disconnected(active_connections, c)
    /\ subscribed' = [subscribed EXCEPT ![c] = {}]   \* followed for live handlers only
    /\ UNCHANGED <<sock, bcast, bcastStart, bcastFailed, delivered, bcastCount>>
    /\ UNCHANGED notWS

\* websocket_endpoint: a text that is not JSON arrives; json.loads raises
\* JSONDecodeError, which is not a WebSocketDisconnect, so the handler ends
\* without calling manager.disconnect and the server closes the socket.
HandlerBadMessage(c) ==
    /\ handler[c] = "running"
    /\ sock[c] = "open"
    /\ handler' = [handler EXCEPT ![c] = "ended"]
    /\ sock' = [sock EXCEPT ![c] = "broken"]
    /\ subscribed' = [subscribed EXCEPT ![c] = {}]
    /\ UNCHANGED <<active_connections, bcast, bcastStart, bcastFailed, delivered,
                   bcastCount>>
    /\ UNCHANGED notWS

Channels == {"landmarks"}

\* websocket_endpoint: a {"type": "subscribe", "channel": ch} message arrives
\* from a connected client and is answered with {"type": "subscribed",
\* "channel": ch} (app.py 337-339). The handler keeps nothing about it.
Subscribe(c, ch) ==
    /\ handler[c] = "running"
    /\ sock[c] = "open"
    /\ ch \notin subscribed[c]
    /\ subscribed' = [subscribed EXCEPT ![c] = subscribed[c] \cup {ch}]
    /\ UNCHANGED <<active_connections, sock, handler, bcast, bcastStart, bcastFailed,
                   delivered, bcastCount>>
    /\ UNCHANGED notWS

\* The model follows one broadcast at a time.
BroadcastInProgress == bcast.pc \in {"iter", "send"}

\* manager.broadcast(message) is entered: the for loop takes an iterator over
\* the live list, positioned at index 0.
Notify(m) ==
    /\ bcast' = [pc |-> "iter", idx |-> 0, to |-> 0, msg |-> m]
    /\ bcastStart' = Range(active_connections)
    /\ bcastFailed' = {}
    /\ delivered' = {}

\* Some caller awaits manager.broadcast(message).
BroadcastBegin(m) ==
    /\ ~BroadcastInProgress
    /\ bcastCount < MaxBroadcasts
    /\ Notify(m)
    /\ bcastCount' = bcastCount + 1
    /\ UNCHANGED <<active_connections, sock, handler>>
    /\ UNCHANGED <<subscribed, notWS>>

\* The list iterator's next(): the element at the iterator's index in the list
\* as it is now, or the end of the loop when the index has reached its length.
IterHasNext(list, idx) == idx < Len(list)

IterItem(list, idx) == list[idx + 1]

\* for connection in self.active_connections: ... await connection.send_json
BroadcastFetch ==
    /\ bcast.pc = "iter"
    /\ IterHasNext(active_connections, bcast.idx)
    /\ bcast' = [bcast EXCEPT !.pc = "send",
                              !.to = IterItem(active_connections, bcast.idx),
                              !.idx = bcast.idx + 1]
    /\ UNCHANGED <<active_connections, sock, handler, bcastStart, bcastFailed,
                   delivered, bcastCount>>
    /\ UNCHANGED <<subscribed, notWS>>

\* The loop is exhausted: broadcast returns.
BroadcastEnd ==
    /\ bcast.pc = "iter"
    /\ ~IterHasNext(active_connections, bcast.idx)
    /\ bcast' = [bcast EXCEPT !.pc = "done", !.to = 0]
    /\ UNCHANGED <<active_connections, sock, handler, bcastStart, bcastFailed,
                   delivered, bcastCount>>
    /\ UNCHANGED <<subscribed, notWS>>

\* The awaited send_json completes. On a socket whose peer is gone it raises and
\* the bare except removes the socket from the list being iterated;
\* list.remove raises ValueError when the socket is no longer listed, and that
\* exception leaves broadcast.
BroadcastSend ==
    /\ bcast.pc = "send"
    /\ IF sock[bcast.to] = "open"
       THEN /\ delivered' = delivered \cup {bcast.to}
            /\ bcast' = [bcast EXCEPT !.pc = "iter"]
            /\ UNCHANGED <<active_connections, bcastFailed>>
       ELSE /\ bcastFailed' = bcastFailed \cup {bcast.to}
            /\ UNCHANGED delivered
            /\ IF bcast.to \in Range(active_connections)
               THEN /\ active_connections' = ListRemove(active_connections, bcast.to)
                    /\ bcast' = [bcast EXCEPT !.pc = "iter"]
               ELSE /\ bcast' = [bcast EXCEPT !.pc = "raised"]
                    /\ UNCHANGED active_connections
    /\ UNCHANGED <<sock, handler, bcastStart, bcastCount>>
    /\ UNCHANGED <<subscribed, notWS>>


----------------------------------------------------------------------------
(* SpatialAnalyzer (spatial_analysis.py) and /api/spatial/nearest          *)
(* (api/main.py 115-137).                                                   *)
(*                                                                          *)
(* A feature is reduced to what the analyses read: the centroid of its     *)
(* geometry in whole degrees, and whether the feature dictionary carries a *)
(* usable "geometry" entry (GeoDataFrame.from_features raises otherwise).   *)

Feature(lon, lat) == [lon |-> lon, lat |-> lat, valid |-> TRUE]

BadFeature == [lon |-> 0, lat |-> 0, valid |-> FALSE]

TestPoints == {Feature(0, 0), Feature(1, 1), Feature(2, 0)}

\* Four points in the four quadrants of a square extent, cell edge 2.
QuadrantExample == <<Feature(1, 1), Feature(3, 1), Feature(1, 3), Feature(3, 3)>>

\* Three points on a line at equal spacing.
LineExample == <<Feature(0, 0), Feature(1, 0), Feature(2, 0)>>

MalformedExample == <<Feature(0, 0), BadFeature>>

RECURSIVE SeqsUpTo(_, _)
SeqsUpTo(S, n) ==
    IF n = 0 THEN {<<>>}
    ELSE LET shorter == SeqsUpTo(S, n - 1)
         IN  shorter \cup {Append(s, x) : s \in shorter, x \in S}

Collections ==
    SeqsUpTo(TestPoints, MaxFeatures)
        \cup {QuadrantExample, LineExample, MalformedExample}

QueryPoints == {[lat |-> 0, lon |-> 0], [lat |-> 1, lon |-> 2]}

Limits == (-1)..(MaxFeatures + 1)

GridSizes == 1..MaxGrid

GdfNone == [isNone |-> TRUE, rows |-> <<>>, derived |-> FALSE]

SaNone == [op |-> "none", via |-> "none", status |-> "none", n |-> 0,
           size |-> 0, coll |-> <<>>, out |-> <<>>, cells |-> 0, method |-> "none"]

SaInit ==
    /\ gdf = GdfNone
    /\ saOut = SaNone

\* load_data, the value left in self.gdf. from_features raises on a feature
\* without usable geometry before self.gdf is assigned. An empty feature list
\* gives a frame with no geometry column: it is assigned to self.gdf and the
\* next statement (its crs / geometry) raises. Otherwise the centroid, area and
\* perimeter columns are added.
LoadedGdf(old, data) ==
    IF \E i \in 1..Len(data) : ~data[i].valid THEN old
    ELSE IF data = <<>> THEN [isNone |-> FALSE, rows |-> <<>>, derived |-> FALSE]
    ELSE [isNone |-> FALSE, rows |-> data, derived |-> TRUE]

\* load_data, the value returned: the table, or None from the except branch.
LoadReturnsNone(data) ==
    \/ \E i \in 1..Len(data) : ~data[i].valid
    \/ data = <<>>

\* floor(sqrt(x)) by bisection.
RECURSIVE SqrtSearch(_, _, _)
SqrtSearch(lo, hi, x) ==
    IF lo >= hi THEN lo
    ELSE LET mid == (lo + hi + 1) \div 2
         IN  IF mid * mid <= x THEN SqrtSearch(mid, hi, x)
             ELSE SqrtSearch(lo, mid - 1, x)

ISqrt(x) == SqrtSearch(0, Min(x, 46340), x)

KmPerDegree == 111

\* geopy's geodesic((lat, lon), (lat, lon)).kilometers is library code; it is
\* modelled by the planar distance, in metres, at the module's own rough
\* conversion of KmPerDegree km per degree (spatial_analysis.py 59-60).
GeodesicMetres(lat1, lon1, lat2, lon2) ==
    LET dx == lon1 - lon2
        dy == lat1 - lat2
    IN  KmPerDegree * ISqrt(1000000 * (dx * dx + dy * dy))

\* round(distance_km, 2): to the nearest 10 metres.
Round2(metres) == ((metres + 5) \div 10) * 10

\* list.sort(key=distance_km): ascending and stable.
RECURSIVE InsertByDistance(_, _)
InsertByDistance(s, x) ==
    IF s = <<>> THEN <<x>>
    ELSE IF x.distance_km < Head(s).distance_km THEN <<x>> \o s
    ELSE <<Head(s)>> \o InsertByDistance(Tail(s), x)

RECURSIVE SortByDistance(_)
SortByDistance(s) ==
    IF s = <<>> THEN <<>>
    ELSE InsertByDistance(SortByDistance(SubSeq(s, 1, Len(s) - 1)), s[Len(s)])

\* Python's s[:n]: the first n items, or all but the last -n when n < 0.
SlicePrefix(s, n) ==
    IF n >= 0 THEN SubSeq(s, 1, Min(n, Len(s)))
    ELSE SubSeq(s, 1, Max(0, Len(s) + n))

\* find_nearest_landmarks without its sort: rows in table order, cut to n.
NearestOfUnsorted(g, lat, lon, n) ==
    IF g.isNone THEN <<>>
    ELSE SlicePrefix(
            [i \in 1..Len(g.rows) |->
                [idx |-> i,
                 distance_km |->
                    Round2(GeodesicMetres(lat, lon, g.rows[i].lat, g.rows[i].lon))]],
            n)

\* find_nearest_landmarks: [] without a table, else every row with its rounded
\* distance, sorted, cut to n.
NearestOf(g, lat, lon, n) ==
    IF g.isNone THEN <<>>
    ELSE SlicePrefix(
            SortByDistance(
                [i \in 1..Len(g.rows) |->
                    [idx |-> i,
                     distance_km |->
                        Round2(GeodesicMetres(lat, lon, g.rows[i].lat, g.rows[i].lon))]]),
            n)

LoadData(data) ==
    /\ gdf' = LoadedGdf(gdf, data)
    /\ saOut' = [SaNone EXCEPT !.op = "load", !.via = "analyzer",
                                !.status = IF LoadReturnsNone(data) THEN "none_returned"
                                           ELSE "ok",
                                !.coll = data]
    /\ UNCHANGED notSA

FindNearestLandmarks(q, n) ==
    /\ saOut' = [SaNone EXCEPT !.op = "nearest", !.via = "analyzer", !.status = "ok",
                                !.n = n, !.size = Len(gdf.rows),
                                !.coll = gdf.rows,
                                !.out = NearestOf(gdf, q.lat, q.lon, n)]
    /\ UNCHANGED gdf
    /\ UNCHANGED notSA

\* POST /api/spatial/nearest: load the submitted collection, then query. The
\* HTTPException(400) raised when load_data returned None is raised inside
\* the handler's own try block, whose except Exception turns it into a 500.
NearestEndpoint(data, q, n) ==
    /\ gdf' = LoadedGdf(gdf, data)
    /\ saOut' =
          IF LoadReturnsNone(data)
          THEN [SaNone EXCEPT !.op = "nearest", !.via = "endpoint", !.status = "500",
                               !.n = n, !.size = Len(data), !.coll = data]
          ELSE [SaNone EXCEPT !.op = "nearest", !.via = "endpoint", !.status = "200",
                               !.n = n, !.size = Len(data), !.coll = data,
                               !.out = NearestOf(LoadedGdf(gdf, data), q.lat, q.lon, n)]
    /\ UNCHANGED notSA

\* numpy.arange(lo, hi, step) for whole numbers: lo, lo + step, ... below hi.
ARange(lo, hi, step) ==
    IF hi <= lo THEN <<>>
    ELSE [k \in 1..((hi - lo + step - 1) \div step) |-> lo + (k - 1) * step]

SeqMin(s) == CHOOSE x \in Range(s) : \A y \in Range(s) : x <= y

SeqMax(s) == CHOOSE x \in Range(s) : \A y \in Range(s) : x >= y

\* The grid of density_analysis: for lon in arange(..): for lat in arange(..):
\* one square cell per pair, listed in that order, by its lower left corner.
GridCells(rows, size) ==
    LET lons == ARange(SeqMin([i \in 1..Len(rows) |-> rows[i].lon]),
                       SeqMax([i \in 1..Len(rows) |-> rows[i].lon]), size)
        lats == ARange(SeqMin([i \in 1..Len(rows) |-> rows[i].lat]),
                       SeqMax([i \in 1..Len(rows) |-> rows[i].lat]), size)
    IN  [k \in 1..(Len(lons) * Len(lats)) |->
            [lon |-> lons[((k - 1) \div Len(lats)) + 1],
             lat |-> lats[((k - 1) % Len(lats)) + 1]]]

\* shapely's cell.contains(point): the point lies in the interior of the cell.
CellContains(cell, size, p) ==
    /\ cell.lon < p.lon /\ p.lon < cell.lon + size
    /\ cell.lat < p.lat /\ p.lat < cell.lat + size

CellCount(cell, size, rows) ==
    Cardinality({i \in 1..Len(rows) : CellContains(cell, size, rows[i])})

\* density_data: the cells with a positive count, in grid order.
DensityData(rows, size) ==
    LET cells == GridCells(rows, size)
        counted == [k \in 1..Len(cells) |->
                       [cell_id |-> k - 1,
                        landmark_count |-> CellCount(cells[k], size, rows)]]
        Occupied(d) == d.landmark_count > 0
    IN  SelectSeq(counted, Occupied)

\* density_analysis: {} without a table; on the frame of an empty load the
\* centroid columns are missing and self.gdf['centroid_lon'] raises KeyError.
DensityAnalysis(size) ==
    /\ saOut' =
          IF gdf.isNone
          THEN [SaNone EXCEPT !.op = "density", !.via = "analyzer", !.status = "empty",
                               !.n = size]
          ELSE IF ~gdf.derived
          THEN [SaNone EXCEPT !.op = "density", !.via = "analyzer", !.status = "raised",
                               !.n = size]
          ELSE [SaNone EXCEPT !.op = "density", !.via = "analyzer", !.status = "ok",
                               !.n = size, !.size = Len(gdf.rows), !.coll = gdf.rows,
                               !.out = DensityData(gdf.rows, size),
                               !.cells = Len(GridCells(gdf.rows, size))]
    /\ UNCHANGED gdf
    /\ UNCHANGED notSA


\* The method names a caller passes to spatial_clustering, one of them unknown
\* to it, and the cluster numbers asked for.
ClusterMethods == {"kmeans", "dbscan", "hierarchical", "spectral"}

ClusterCounts == {2}

\* spatial_clustering: {} without a table. Otherwise lines 126-127 build the
\* coordinate array from one pair [centroid_lon, [centroid_lat]] per row, a
\* number and a one-item list: np.array raises ValueError on such rows, or
\* (older numpy) builds an object array on which StandardScaler.fit_transform
\* raises ValueError; with no row at all fit_transform raises on the empty
\* array. The method is looked at only after that, so no labels, cluster_stats
\* or n_clusters are ever computed.
SpatialClustering(method, n) ==
    /\ saOut' =
          IF gdf.isNone
          THEN [SaNone EXCEPT !.op = "clustering", !.via = "analyzer",
                               !.status = "empty", !.n = n, !.method = method]
          ELSE [SaNone EXCEPT !.op = "clustering", !.via = "analyzer",
                               !.status = "raised", !.n = n, !.method = method,
                               !.coll = gdf.rows]
    /\ UNCHANGED gdf
    /\ UNCHANGED notSA
----------------------------------------------------------------------------
(* SpatialMLPredictor (ml_models.py), POST /api/ml/train and /api/ml/predict *)
(* (app.py 562-624, api/main.py 207-261).                                    *)
(*                                                                          *)
(* An artefact (a fitted model, scaler or encoder) is named by the run that *)
(* produced it: 0 is "no entry", PriorArtefact one left on disk by an       *)
(* earlier process, ArtefactOf(r) the one fitted by run r of this process.  *)

ModelTypes == {"accessibility", "clustering", "classification"}

\* A model_type train_model does not know.
UnknownType == "regression"

TrainTypes == {"accessibility", "classification", UnknownType}

PredictTypes == {"accessibility", "classification", UnknownType}

AllTypes == ModelTypes \cup {UnknownType}

RunIds == 1..MaxRuns

\* Artefacts (fitted models, scalers, encoders) are told apart by the training
\* that produced them: 0 is no artefact, PriorArtefact the one an earlier
\* process left on disk, ArtefactOf(r) the one training run r of this process
\* fits.
PriorArtefact == 1

ArtefactOf(r) == PriorArtefact + r

TrainedHere(a) == a > PriorArtefact

NoFiles == [kind \in {"model", "scaler", "encoder"} |-> [t \in AllTypes |-> 0]]

\* What an earlier process may have left under models/: nothing, the model and
\* scaler of a training run, or a model file alone (its run failed, or the
\* process died, before the scaler was dumped).
PriorDisks ==
    {NoFiles,
     [NoFiles EXCEPT !.model["accessibility"] = PriorArtefact,
                     !.scaler["accessibility"] = PriorArtefact],
     [NoFiles EXCEPT !.model["accessibility"] = PriorArtefact]}

\* The submitted training data: the features, and whether the table has a
\* 'type' column.
TrainInputs ==
    {[data |-> MalformedExample, hasType |-> FALSE],
     [data |-> LineExample, hasType |-> TRUE],
     [data |-> LineExample, hasType |-> FALSE]}

RunNone == [state |-> "none", mode |-> "none", type |-> "none", hasType |-> FALSE,
            pos |-> 0]

PredNone == [op |-> "none", type |-> "none", inMemory |-> 0, onDisk |-> 0,
             outcome |-> "none", error |-> "none", model |-> 0, scaler |-> 0]

MlInit ==
    /\ deployment = "none"
    /\ models = [t \in AllTypes |-> 0]
    /\ scalers = [t \in AllTypes |-> 0]
    /\ encoders = [t \in AllTypes |-> 0]
    /\ disk = NoFiles
    /\ run = [r \in RunIds |-> RunNone]
    /\ resp = [r \in RunIds |-> "none"]
    /\ predOut = PredNone

Deployments == {"app", "api"}

\* The process starts: one of the two applications creates its module-level
\* SpatialMLPredictor (app.py 79, api/main.py 43), next to whatever model files
\* earlier processes left under models/.
Startup(d, files) ==
    /\ deployment = "none"
    /\ deployment' = d
    /\ disk' = files
    /\ UNCHANGED <<models, scalers, encoders, run, resp, predOut, saVars>>
    /\ UNCHANGED <<bcastVars, notML>>

\* The statements of train_model and of _train_<type>_model that can fail or
\* that change what the predictor holds, in program order.
StepsOf(type) ==
    IF type \in {"accessibility", "clustering"}
    THEN <<"fit", "set_model", "set_scaler", "dump_model", "dump_scaler", "fit_rest">>
    ELSE IF type = "classification"
    THEN <<"fit", "set_model", "set_scaler", "set_encoder",
           "dump_model", "dump_scaler", "dump_encoder">>
    ELSE <<"reject">>

\* Whether the step can complete / can raise, for this run.
StepCanSucceed(rn, step) ==
    /\ step # "reject"
    /\ (step = "fit" /\ rn.type = "classification") => rn.hasType

StepCanFail(rn, step) ==
    step \in {"reject", "fit", "fit_rest", "dump_model", "dump_scaler", "dump_encoder"}

\* The event loop is inside a synchronous train_model call (app.py 593: the
\* background coroutine calls it without yielding), inside the for loop of a
\* broadcast that is not suspended on a send, or inside a predict handler
\* that has not returned its response yet (the predict handlers do not await).
LoopBusy ==
    \/ \E r \in RunIds : run[r].state = "running" /\ run[r].mode = "loop"
    \/ bcast.pc = "iter"
    \/ predOut.op # "none"

FreshRun == CHOOSE r \in RunIds : run[r].state = "none" /\
                \A q \in RunIds : q < r => run[q].state # "none"

\* The HTTP response of the train handlers: the acknowledgement, or the 500
\* into which the handler's except Exception turns its own HTTPException(400).
TrainResponse(loadedNone) ==
    IF loadedNone THEN "500" ELSE "training_in_progress"

\* app.py train_ml_model: background_tasks.add_task(_train_model_background),
\* a coroutine, run on the event loop after the response.
\* api/main.py train_ml_model: add_task(ml_predictor.train_model), a plain
\* function, run in the thread pool after the response. FastAPI injects
\* BackgroundTasks, so the synchronous else branch (251-258) is not taken.
TrainRequest(type, input) ==
    /\ deployment \in Deployments
    /\ ~LoopBusy
    /\ \E r \in RunIds : run[r].state = "none"
    /\ LET r == FreshRun
           loadedNone == LoadReturnsNone(input.data)
       IN  /\ gdf' = LoadedGdf(gdf, input.data)
           /\ resp' = [resp EXCEPT ![r] = TrainResponse(loadedNone)]
           /\ run' = [run EXCEPT ![r] =
                        IF loadedNone
                        THEN [RunNone EXCEPT !.state = "rejected"]
                        ELSE [state |-> "queued",
                              mode |-> IF deployment = "app" THEN "loop" ELSE "thread",
                              type |-> type, hasType |-> input.hasType, pos |-> 0]]
    /\ UNCHANGED <<deployment, models, scalers, encoders, disk, predOut, saOut>>
    /\ UNCHANGED <<bcastVars, notML>>

\* The background task starts: train_model is entered. _train_model_background
\* (app.py 589-609) ends with a broadcast of its own.
RunStart(r) ==
    /\ run[r].state = "queued"
    /\ ~LoopBusy
    /\ run[r].mode = "loop" => ~BroadcastInProgress
    /\ run' = [run EXCEPT ![r].state = "running", ![r].pos = 1]
    /\ UNCHANGED <<deployment, models, scalers, encoders, disk, resp, predOut, saVars>>
    /\ UNCHANGED <<bcastVars, notML>>

\* A handler that waited for the run and reported its outcome.
RespReportsOutcome(r, outcome) == [resp EXCEPT ![r] = outcome]

\* What the outcome of a background run does to the response already given.
RespAfterRun(r, outcome) == resp

Advance(r) ==
    IF run[r].pos = Len(StepsOf(run[r].type))
    THEN [run EXCEPT ![r].state = "done", ![r].pos = 0, ![r].hasType = FALSE]
    ELSE [run EXCEPT ![r].pos = run[r].pos + 1]

CurrentStep(r) == StepsOf(run[r].type)[run[r].pos]

\* A run in the thread pool (api/main.py) runs beside the event loop, so beside
\* a predict handler too: between predict's read of self.scalers (line 319)
\* and its read of self.models (line 325) the run may take steps. Steps taken
\* while the handler is at any other point change nothing it still reads, and
\* are taken before or after it.
ThreadMayStep(r) ==
    \/ predOut.op = "none"
    \/ run[r].mode = "thread" /\ predOut.outcome = "scaled"

\* The current statement of the run completes.
RunStepOk(r) ==
    /\ run[r].state = "running"
    /\ ThreadMayStep(r)
    /\ StepCanSucceed(run[r], CurrentStep(r))
    /\ LET step == CurrentStep(r)
           t == run[r].type
           a == ArtefactOf(r)
       IN  /\ models' = IF step = "set_model" THEN [models EXCEPT ![t] = a] ELSE models
           /\ scalers' = IF step = "set_scaler" THEN [scalers EXCEPT ![t] = a] ELSE scalers
           /\ encoders' = IF step = "set_encoder" THEN [encoders EXCEPT ![t] = a]
                          ELSE encoders
           /\ disk' = IF step = "dump_model" THEN [disk EXCEPT !.model[t] = a]
                      ELSE IF step = "dump_scaler" THEN [disk EXCEPT !.scaler[t] = a]
                      ELSE IF step = "dump_encoder" THEN [disk EXCEPT !.encoder[t] = a]
                      ELSE disk
    /\ run' = Advance(r)
    /\ resp' = IF run'[r].state = "done" THEN RespAfterRun(r, "done") ELSE resp
    /\ IF run'[r].state = "done" /\ run[r].mode = "loop"
       THEN Notify("model_training_completed")
       ELSE UNCHANGED bcastVars
    /\ UNCHANGED <<deployment, predOut, saVars>>
    /\ UNCHANGED notML

\* The current statement raises: the except clauses of _train_<type>_model and
\* train_model re-raise, and train_model ends with an exception.
RunStepFails(r) ==
    /\ run[r].state = "running"
    /\ ThreadMayStep(r)
    /\ StepCanFail(run[r], CurrentStep(r))
    /\ run' = [run EXCEPT ![r].state = "failed", ![r].pos = 0, ![r].hasType = FALSE]
    /\ resp' = RespAfterRun(r, "failed")
    /\ IF run[r].mode = "loop"
       THEN Notify("model_training_failed")
       ELSE UNCHANGED bcastVars
    /\ UNCHANGED <<deployment, models, scalers, encoders, disk, predOut, saVars>>
    /\ UNCHANGED notML

\* A predictor that never reads the model file.
ModelsNotLoaded(t) == models

\* _load_model: whichever of the model and scaler files exist are loaded (and
\* the encoder file for 'classification').
LoadedModels(t) == IF disk.model[t] # 0 THEN [models EXCEPT ![t] = disk.model[t]] ELSE models

LoadedScalers(t) ==
    IF disk.scaler[t] # 0 THEN [scalers EXCEPT ![t] = disk.scaler[t]] ELSE scalers

LoadedEncoders(t) ==
    IF t = "classification" /\ disk.encoder[t] # 0
    THEN [encoders EXCEPT ![t] = disk.encoder[t]] ELSE encoders

\* predict(features, model_type), called by both predict endpoints, up to the
\* scaling of the features (lines 304-322).
Predict(t) ==
    /\ deployment \in Deployments
    /\ ~LoopBusy
    /\ LET load == models[t] = 0
           m == IF load THEN LoadedModels(t) ELSE models
           s == IF load THEN LoadedScalers(t) ELSE scalers
           e == IF load THEN LoadedEncoders(t) ELSE encoders
       IN  /\ models' = m
           /\ scalers' = s
           /\ encoders' = e
           /\ predOut' =
                IF m[t] = 0
                THEN \* ValueError("Model ... not found or trained"), re-raised as
                     \* Exception("Prediction failed: ...")
                     [PredNone EXCEPT !.op = "predict", !.type = t,
                                      !.inMemory = models[t], !.onDisk = disk.model[t],
                                      !.outcome = "raised", !.error = "Exception"]
                ELSE [PredNone EXCEPT !.op = "predict", !.type = t,
                                      !.inMemory = models[t], !.onDisk = disk.model[t],
                                      !.outcome = "scaled", !.scaler = s[t]]
    /\ UNCHANGED <<deployment, disk, run, resp, saVars>>
    /\ UNCHANGED <<bcastVars, notML>>

\* predict goes on: model = self.models[model_type]; model.predict(...)
\* (lines 325-337).
PredictModel ==
    /\ predOut.outcome = "scaled"
    /\ predOut' = [predOut EXCEPT !.outcome = "prediction",
                                  !.model = models[predOut.type]]
    /\ UNCHANGED <<deployment, models, scalers, encoders, disk, run, resp, saVars>>
    /\ UNCHANGED <<bcastVars, notML>>

\* The predict endpoint returns its response (app.py 617-624, main.py 216-224).
PredictReturn ==
    /\ predOut.outcome \in {"raised", "prediction"}
    /\ predOut' = PredNone
    /\ UNCHANGED <<deployment, models, scalers, encoders, disk, run, resp, saVars>>
    /\ UNCHANGED <<bcastVars, notML>>


\* Python's round() of the quotient a / b to a whole number: to the nearest,
\* and to the even neighbour when the quotient lies half way.
RoundHalfEven(a, b) ==
    LET q == a \div b
        r == a % b
    IN  IF 2 * r < b THEN q
        ELSE IF 2 * r > b THEN q + 1
        ELSE IF q % 2 = 0 THEN q
        ELSE q + 1

\* The default of accessibility_analysis's transport_speed, in km/h.
TransportSpeeds == {50}

\* accessibility_analysis, the distances list of row i: the geodesic distance
\* to every other row; here its sum, in metres.
RECURSIVE SumDistancesFrom(_, _, _)
SumDistancesFrom(rows, i, k) ==
    IF k = 0 THEN 0
    ELSE (IF k = i THEN 0
          ELSE GeodesicMetres(rows[i].lat, rows[i].lon, rows[k].lat, rows[k].lon))
         + SumDistancesFrom(rows, i, k - 1)

SumDistances(rows, i) == SumDistancesFrom(rows, i, Len(rows))

\* A score that grows with the mean distance.
ScoreOfDistance(sum, others) ==
    IF others = 0 THEN 0 ELSE RoundHalfEven(sum, 1000 * others)

\* round(1 / (avg_distance + 1), 4) in units of 0.0001, where avg_distance is
\* the mean in km of the distances to the others, 0 when there is no other.
AccessibilityScore(sum, others) ==
    IF others = 0 THEN 10000
    ELSE RoundHalfEven(10000000 * others, sum + 1000 * others)

\* round(avg_distance, 2), in metres.
AvgDistance(sum, others) ==
    IF others = 0 THEN 0 ELSE 10 * RoundHalfEven(sum, 10 * others)

\* round(avg_distance / transport_speed, 2), in hundredths of an hour.
AvgTravelTime(sum, others, speed) ==
    IF others = 0 THEN 0 ELSE RoundHalfEven(sum, 10 * speed * others)

AccessibilityData(rows, speed) ==
    [i \in 1..Len(rows) |->
        [idx |-> i,
         avg_distance_km |-> AvgDistance(SumDistances(rows, i), Len(rows) - 1),
         avg_travel_time_hours |->
            AvgTravelTime(SumDistances(rows, i), Len(rows) - 1, speed),
         accessibility_score |->
            AccessibilityScore(SumDistances(rows, i), Len(rows) - 1)]]

\* max(accessibility_data, key=score) and min(...): the first item holding
\* the extreme score.
MostAccessible(data) ==
    CHOOSE i \in 1..Len(data) :
        /\ \A j \in 1..Len(data) :
                data[j].accessibility_score <= data[i].accessibility_score
        /\ \A j \in 1..(i - 1) :
                data[j].accessibility_score < data[i].accessibility_score

LeastAccessible(data) ==
    CHOOSE i \in 1..Len(data) :
        /\ \A j \in 1..Len(data) :
                data[j].accessibility_score >= data[i].accessibility_score
        /\ \A j \in 1..(i - 1) :
                data[j].accessibility_score > data[i].accessibility_score

\* accessibility_analysis: {} without a table; on the frame of an empty load
\* accessibility_data stays [] and max([]) raises ValueError. cells carries
\* the index of most_accessible, size that of least_accessible.
AccessibilityAnalysis(speed) ==
    /\ saOut' =
          IF gdf.isNone
          THEN [SaNone EXCEPT !.op = "accessibility", !.via = "analyzer",
                               !.status = "empty", !.n = speed]
          ELSE IF gdf.rows = <<>>
          THEN [SaNone EXCEPT !.op = "accessibility", !.via = "analyzer",
                               !.status = "raised", !.n = speed]
          ELSE LET data == AccessibilityData(gdf.rows, speed)
               IN  [SaNone EXCEPT !.op = "accessibility", !.via = "analyzer",
                                   !.status = "ok", !.n = speed, !.coll = gdf.rows,
                                   !.out = data,
                                   !.cells = MostAccessible(data),
                                   !.size = LeastAccessible(data)]
    /\ UNCHANGED gdf
    /\ UNCHANGED notSA

----------------------------------------------------------------------------
(* SpatialMLPredictor used directly, one call after the other in one        *)
(* process, as the test at the end of ml_models.py does (455-474).          *)

TpInit == trained = <<>>

\* Where a train_model call may stop: nowhere (0), or at one of its steps.
StopPoints == 0..Len(StepsOf("classification"))

\* The steps of a train_model call that complete: all of them, or those before
\* the step `stop` that raises (stop = 0: none raises).
StepsDone(type, stop) ==
    IF stop = 0 THEN StepsOf(type) ELSE SubSeq(StepsOf(type), 1, stop - 1)

\* Whether a call for this table can run that way.
CanRunTo(rn, stop) ==
    /\ \A k \in 1..Len(StepsDone(rn.type, stop)) :
            StepCanSucceed(rn, StepsOf(rn.type)[k])
    /\ stop # 0 => StepCanFail(rn, StepsOf(rn.type)[stop])

\* train_model(gdf, model_type), a synchronous call: the statements of
\* _train_<type>_model run in order until one raises; the entries set and the
\* files dumped before that stay.
TrainModel(t, hasType, stop) ==
    /\ Len(trained) < MaxTrainings
    /\ stop \in 0..Len(StepsOf(t))
    /\ CanRunTo([RunNone EXCEPT !.type = t, !.hasType = hasType], stop)
    /\ LET a == ArtefactOf(Len(trained) + 1)
           did == Range(StepsDone(t, stop))
       IN  /\ models' = IF "set_model" \in did THEN [models EXCEPT ![t] = a] ELSE models
           /\ scalers' = IF "set_scaler" \in did THEN [scalers EXCEPT ![t] = a]
                         ELSE scalers
           /\ encoders' = IF "set_encoder" \in did THEN [encoders EXCEPT ![t] = a]
                          ELSE encoders
           /\ disk' = [kind \in {"model", "scaler", "encoder"} |->
                         IF ("dump_" \o kind) \in did
                         THEN [disk[kind] EXCEPT ![t] = a] ELSE disk[kind]]
           /\ trained' = Append(trained, [type |-> t, artefact |-> a, ok |-> stop = 0])
    /\ predOut' = PredNone
    /\ UNCHANGED <<deployment, run, resp>>
    /\ UNCHANGED notTP

\* predict(features, model_type), a synchronous call (lines 304-337).
PredictCall(t) ==
    /\ LET load == models[t] = 0
           m == IF load THEN LoadedModels(t) ELSE models
           s == IF load THEN LoadedScalers(t) ELSE scalers
           e == IF load THEN LoadedEncoders(t) ELSE encoders
       IN  /\ models' = m
           /\ scalers' = s
           /\ encoders' = e
           /\ predOut' =
                IF m[t] = 0
                THEN [PredNone EXCEPT !.op = "predict", !.type = t,
                                      !.inMemory = models[t], !.onDisk = disk.model[t],
                                      !.outcome = "raised", !.error = "Exception"]
                ELSE [PredNone EXCEPT !.op = "predict", !.type = t,
                                      !.inMemory = models[t], !.onDisk = disk.model[t],
                                      !.outcome = "prediction",
                                      !.model = m[t], !.scaler = s[t]]
    /\ UNCHANGED <<deployment, disk, run, resp, trained>>
    /\ UNCHANGED notTP

----------------------------------------------------------------------------
(* AppStarter.run (start_app.py 273-303) and the checks it calls.           *)

\* check_dependencies, required_packages (122-126).
RequiredPackages ==
    <<"fastapi", "uvicorn", "psycopg2-binary", "geopandas", "shapely", "folium",
      "plotly", "matplotlib", "seaborn", "scikit-learn", "pandas", "numpy">>

\* package.replace('-', '_'): the module name __import__ is given.
ModuleName(package) ==
    IF package = "psycopg2-binary" THEN "psycopg2_binary"
    ELSE IF package = "scikit-learn" THEN "scikit_learn"
    ELSE package

ChecksInOrder == <<"dependencies", "database_connection", "database_initialization">>

\* missing: the module names whose import raised ImportError; passed: the
\* checks that returned True, in order; failed: the check that returned False;
\* app: whether uvicorn.run was entered; exit: the process's exit status.
StInit ==
    starter = [pc |-> "check_dependencies", next |-> 1, missing |-> {},
               passed |-> <<>>, failed |-> "none", app |-> "not_started",
               exit |-> "none"]

Exited(st, status) == [st EXCEPT !.pc = "exited", !.exit = status]

\* check_dependencies, one pass of its for loop: __import__ of the next
\* package's module name succeeds or raises ImportError.
ImportPackage(ok) ==
    /\ starter.pc = "check_dependencies"
    /\ starter.next <= Len(RequiredPackages)
    /\ starter' = [starter EXCEPT
                      !.next = starter.next + 1,
                      !.missing = IF ok THEN starter.missing
                                  ELSE starter.missing \cup
                                        {ModuleName(RequiredPackages[starter.next])}]
    /\ UNCHANGED notST

\* A dependency check that reports success whatever is missing.
DependenciesAlwaysMet(missing) == TRUE

\* check_dependencies, its return value: if missing_packages: return False.
DependenciesMet(missing) == missing = {}

\* run: if not self.check_dependencies(): sys.exit(1). SystemExit is not an
\* Exception, so run's except clauses let it through.
DependenciesChecked ==
    /\ starter.pc = "check_dependencies"
    /\ starter.next > Len(RequiredPackages)
    /\ starter' =
          IF DependenciesMet(starter.missing)
          THEN [starter EXCEPT !.pc = "check_database_connection",
                               !.passed = Append(starter.passed, "dependencies")]
          ELSE Exited([starter EXCEPT !.failed = "dependencies"], "1")
    /\ UNCHANGED notST

\* check_database_connection: psycopg2.connect succeeds, or raises and the
\* method returns False; run then exits with status 1.
CheckDatabaseConnection(ok) ==
    /\ starter.pc = "check_database_connection"
    /\ starter' =
          IF ok
          THEN [starter EXCEPT !.pc = "initialize_database",
                               !.passed = Append(starter.passed, "database_connection")]
          ELSE Exited([starter EXCEPT !.failed = "database_connection"], "1")
    /\ UNCHANGED notST

\* initialize_database: DatabaseIntegration.initialize_database returns, or
\* raises and the method returns False; run then exits with status 1.
InitializeDatabase(ok) ==
    /\ starter.pc = "initialize_database"
    /\ starter' =
          IF ok
          THEN [starter EXCEPT !.pc = "start_application",
                               !.passed = Append(starter.passed,
                                                 "database_initialization")]
          ELSE Exited([starter EXCEPT !.failed = "database_initialization"], "1")
    /\ UNCHANGED notST

\* print_startup_info, then start_application enters uvicorn.run.
StartApplication ==
    /\ starter.pc = "start_application"
    /\ starter' = [starter EXCEPT !.pc = "serving", !.app = "serving"]
    /\ UNCHANGED notST

\* uvicorn.run is over: it returned (run returns, status 0), it raised an
\* Exception (start_application re-raises, run exits with status 1), or the
\* user interrupted it (run logs KeyboardInterrupt and returns).
ApplicationEnds(how) ==
    /\ starter.pc = "serving"
    /\ starter' = Exited([starter EXCEPT !.app = "stopped"],
                         IF how = "raised" THEN "1" ELSE "0")
    /\ UNCHANGED notST

\* KeyboardInterrupt while a check runs: none of the checks catches it, run
\* logs it and returns.
StartupInterrupted ==
    /\ starter.pc \in {"check_dependencies", "check_database_connection",
                       "initialize_database", "start_application"}
    /\ starter' = Exited(starter, "0")
    /\ UNCHANGED notST
----------------------------------------------------------------------------
(* The geospatial_data table and its clients: the landmark handlers of      *)
(* app.py (392-483) over DatabaseManager (83-122), and DatabaseIntegration   *)
(* (database_integration.py 40-79, 153-184, 305-322).                        *)

RowIds == 1..MaxRows

\* A GeoJSON geometry as a handler receives it: its type and the items of its
\* coordinates array, each item as str() formats it inside an f-string.
Geometry(type, coordinates) == [type |-> type, coordinates |-> coordinates]

Landmark(name, description, landmark_type, geometry) ==
    [name |-> name, description |-> description, landmark_type |-> landmark_type,
     geometry |-> geometry]

PointCafe == Landmark("cafe", "espresso bar", "restaurant", Geometry("Point", <<"1", "2">>))

PointPark == Landmark("park", "city park", "park", Geometry("Point", <<"3", "4">>))

LineRoad ==
    Landmark("road", "ring road", "road", Geometry("LineString", <<"[0, 0]", "[1, 1]">>))

PolygonLake ==
    Landmark("lake", "crater lake", "water",
             Geometry("Polygon", <<"[[0, 0], [1, 0], [1, 1], [0, 0]]">>))

Submissions == {PointCafe, PointPark, LineRoad, PolygonLake}

\* No row under an id; also the landmark of an outcome that carries none.
NoRow == Landmark("", "", "", Geometry("", <<>>))

\* The texts that PostGIS reads as one number.
Numerals == {"1", "2", "3", "4"}

\* A WKT text: its tag and the coordinate items between the parentheses.
Wkt(ok, tag, args) == [ok |-> ok, tag |-> tag, args |-> args]

\* app.py 396, 432: f"POINT({coordinates[0]} {coordinates[1]})", whatever the
\* geometry's type; coordinates[1] raises IndexError on a one-item array.
PointWkt(g) ==
    IF Len(g.coordinates) < 2 THEN Wkt(FALSE, "", <<>>)
    ELSE Wkt(TRUE, "POINT", <<g.coordinates[1], g.coordinates[2]>>)

\* The WKT a caller of DatabaseIntegration passes for a geometry.
WktTag(type) ==
    IF type = "Point" THEN "POINT"
    ELSE IF type = "LineString" THEN "LINESTRING"
    ELSE IF type = "Polygon" THEN "POLYGON"
    ELSE "GARBAGE"

WktOf(g) == Wkt(TRUE, WktTag(g.type), g.coordinates)

\* A text that is not WKT.
MalformedLandmark == Landmark("broken", "", "", Geometry("Garbage", <<"x">>))

IntegrationInputs == Submissions \cup {MalformedLandmark}

\* ST_GeomFromText(%s, 4326): the geometry a WKT text denotes, or a parse error.
WktValid(w) ==
    IF w.tag = "POINT" THEN Len(w.args) = 2 /\ \A i \in 1..2 : w.args[i] \in Numerals
    ELSE w.tag \in {"LINESTRING", "POLYGON"}

GeometryType(tag) ==
    IF tag = "POINT" THEN "Point"
    ELSE IF tag = "LINESTRING" THEN "LineString"
    ELSE "Polygon"

GeomFromText(w) == Geometry(GeometryType(w.tag), w.args)

\* coll: the feature collection an import was given; prior: the rows stored
\* when it began.
\* conn: the connection object the call's query found ("unused": the call made
\* no query); attempts: the psycopg2.connect calls made for that query;
\* detail: the status of the HTTPException the handler itself raised, if any.
DbNone ==
    [op |-> "none", via |-> "none", status |-> "none", id |-> 0, target |-> 0,
     input |-> NoRow, found |-> FALSE, rows |-> 0, ret |-> "none", changed |-> FALSE,
     conn |-> "unused", attempts |-> 0, detail |-> "none",
     coll |-> <<>>, prior |-> 0]

\* A connection attribute is None ("none"), a connection the server answers
\* on ("open"), one whose server side is gone while its closed attribute is
\* still 0 ("lost"), or one psycopg2 has marked closed ("closed").
ConnStates == {"none", "open", "lost", "closed"}

\* Both clients connect in their constructors (app.py 84-86,
\* database_integration.py 37-38); the server is up when the processes start.
DbInit ==
    /\ table = [i \in RowIds |-> NoRow]
    /\ nextId = 1
    /\ txn = "idle"
    /\ server = "up"
    /\ dbconn = "open"
    /\ iconn = "open"
    /\ dbOut = DbNone

\* connect(): psycopg2.connect succeeds, or raises and the except clause
\* leaves self.connection = None.
Connected(srv) == IF srv = "up" THEN "open" ELSE "none"

\* A get_connection that holds on to whatever connection object it has.
GetConnectionNoReconnect(c, srv) == c

\* get_connection(): if self.connection is None or self.connection.closed:
\* self.connect(); return self.connection.
GetConnection(c, srv) == IF c \in {"none", "closed"} THEN Connected(srv) ELSE c

\* The psycopg2.connect calls get_connection makes.
ConnectAttempts(c) == IF c \in {"none", "closed"} THEN 1 ELSE 0

\* The connection attribute after a query on connection c: conn.cursor() on
\* None raises AttributeError; a statement on a lost connection raises
\* OperationalError and psycopg2 marks the connection closed.
ConnAfterQuery(c) ==
    IF c = "lost" THEN "closed" ELSE c

\* The server stops: the connections to it are lost, and with them the
\* transaction DatabaseManager's connection had open.
ServerDown ==
    /\ server = "up"
    /\ dbOut.status # "broadcasting"
    /\ server' = "down"
    /\ dbconn' = IF dbconn = "open" THEN "lost" ELSE dbconn
    /\ iconn' = IF iconn = "open" THEN "lost" ELSE iconn
    /\ txn' = "idle"
    /\ UNCHANGED <<table, nextId, dbOut, bcastVars>>
    /\ UNCHANGED notDB

ServerUp ==
    /\ server = "down"
    /\ server' = "up"
    /\ UNCHANGED <<table, nextId, txn, dbconn, iconn, dbOut, bcastVars>>
    /\ UNCHANGED notDB

\* A cursor that reports one row for every id of the sequence, stored or not.
RowCountIgnoresTable(id) == IF id \in RowIds THEN 1 ELSE 0

\* cursor.rowcount of a DELETE or UPDATE ... WHERE id = %s.
RowCount(id) == IF id \in RowIds /\ table[id] # NoRow THEN 1 ELSE 0

\* The row SELECT ... FROM geospatial_data lists under an id, if any.
FetchById(id) == IF id \in RowIds THEN table[id] ELSE NoRow

\* A handler of app.py is between its query and its response.
CrudBusy == dbOut.status = "broadcasting"

\* A connection check that takes no notice of the transaction's state.
AppConnIgnoresTxn == GetConnection(dbconn, server) # "open"

\* DatabaseManager.execute_query (app.py 109-122): the connection never has
\* autocommit set and no statement rolls back, so after one failed statement
\* every later one on that connection fails (the transaction stays aborted).
\* Without a connection conn.cursor() raises AttributeError, on a lost one the
\* statement raises OperationalError. Each is raised as HTTPException(500).
AppConnFails == GetConnection(dbconn, server) # "open" \/ txn = "aborted"

AppQueryFails(w) == AppConnFails \/ ~WktValid(w)

\* What a failed statement leaves of the connection and its transaction.
AppAfterFailure ==
    /\ dbconn' = ConnAfterQuery(GetConnection(dbconn, server))
    /\ txn' = IF GetConnection(dbconn, server) = "open" THEN "aborted" ELSE "idle"

\* The outcome record of a call whose query went to connection attribute c.
Queried(out, c) == [out EXCEPT !.conn = c, !.attempts = ConnectAttempts(c)]

\* app.py create_landmark. execute_query returns cursor.rowcount for the
\* INSERT ... RETURNING id, and that is what the handler reports as "id".
CreateLandmark(l) ==
    /\ ~CrudBusy /\ ~LoopBusy /\ ~BroadcastInProgress
    /\ nextId <= MaxRows
    /\ LET w == PointWkt(l.geometry)
           out == [DbNone EXCEPT !.op = "create", !.via = "app", !.input = l]
       IN  IF ~w.ok
           THEN \* IndexError before any query; except Exception answers 500
                /\ dbOut' = [out EXCEPT !.status = "500"]
                /\ UNCHANGED <<table, nextId, txn, dbconn, bcastVars>>
           ELSE IF AppQueryFails(w)
           THEN /\ dbOut' = [Queried(out, dbconn) EXCEPT !.status = "500"]
                /\ AppAfterFailure
                /\ UNCHANGED <<table, nextId, bcastVars>>
           ELSE /\ table' = [table EXCEPT ![nextId] =
                                Landmark(l.name, l.description, l.landmark_type,
                                         GeomFromText(w))]
                /\ nextId' = nextId + 1
                /\ dbOut' = [Queried(out, dbconn) EXCEPT !.status = "broadcasting",
                                        !.rows = 1, !.id = 1, !.changed = TRUE]
                /\ Notify("landmark_created")
                /\ dbconn' = "open"
                /\ UNCHANGED txn
    /\ UNCHANGED <<server, iconn>>
    /\ UNCHANGED notDB

\* app.py update_landmark: HTTPException(404) for rowcount 0 is raised inside
\* the try and answered as 500 by except Exception.
UpdateLandmark(id, l) ==
    /\ ~CrudBusy /\ ~LoopBusy /\ ~BroadcastInProgress
    /\ LET w == PointWkt(l.geometry)
           out == [DbNone EXCEPT !.op = "update", !.via = "app", !.input = l,
                                 !.target = id, !.found = (table[id] # NoRow)]
       IN  IF ~w.ok
           THEN /\ dbOut' = [out EXCEPT !.status = "500"]
                /\ UNCHANGED <<table, txn, dbconn, bcastVars>>
           ELSE IF AppQueryFails(w)
           THEN /\ dbOut' = [Queried(out, dbconn) EXCEPT !.status = "500"]
                /\ AppAfterFailure
                /\ UNCHANGED <<table, bcastVars>>
           ELSE IF RowCount(id) = 0
           THEN /\ dbOut' = [Queried(out, dbconn) EXCEPT !.status = "500",
                                                         !.detail = "404"]
                /\ dbconn' = "open"
                /\ UNCHANGED <<table, txn, bcastVars>>
           ELSE LET new == [table EXCEPT ![id] =
                                Landmark(l.name, l.description, l.landmark_type,
                                         GeomFromText(w))]
                IN  /\ table' = new
                    /\ dbOut' = [Queried(out, dbconn) EXCEPT
                                        !.status = "broadcasting",
                                        !.rows = RowCount(id),
                                        !.changed = (new # table)]
                    /\ Notify("landmark_updated")
                    /\ dbconn' = "open"
                    /\ UNCHANGED txn
    /\ UNCHANGED <<nextId, server, iconn>>
    /\ UNCHANGED notDB

\* DELETE FROM geospatial_data WHERE id = %s
Deleted(id) == [i \in RowIds |-> IF i = id THEN NoRow ELSE table[i]]

\* app.py delete_landmark: HTTPException(404) for rowcount 0 is raised inside
\* the try and answered as 500 by except Exception.
DeleteLandmark(id) ==
    /\ ~CrudBusy /\ ~LoopBusy /\ ~BroadcastInProgress
    /\ LET out == [DbNone EXCEPT !.op = "delete", !.via = "app", !.target = id,
                                 !.found = (table[id] # NoRow)]
       IN  IF AppConnFails
           THEN /\ dbOut' = [Queried(out, dbconn) EXCEPT !.status = "500"]
                /\ AppAfterFailure
                /\ UNCHANGED <<table, bcastVars>>
           ELSE IF RowCount(id) = 0
           THEN /\ table' = Deleted(id)
                /\ dbOut' = [Queried(out, dbconn) EXCEPT
                                        !.status = "500", !.detail = "404",
                                        !.changed = (Deleted(id) # table)]
                /\ dbconn' = "open"
                /\ UNCHANGED <<txn, bcastVars>>
           ELSE /\ table' = Deleted(id)
                /\ dbOut' = [Queried(out, dbconn) EXCEPT
                                        !.status = "broadcasting",
                                        !.rows = RowCount(id),
                                        !.changed = (Deleted(id) # table)]
                /\ Notify("landmark_deleted")
                /\ dbconn' = "open"
                /\ UNCHANGED txn
    /\ UNCHANGED <<nextId, server, iconn>>
    /\ UNCHANGED notDB

\* The handler's await manager.broadcast(...) is over: it returns its success
\* response, or except Exception answers 500 when broadcast raised.
CrudReturn ==
    /\ CrudBusy
    /\ bcast.pc \in {"done", "raised"}
    /\ dbOut' = [dbOut EXCEPT !.status = IF bcast.pc = "done" THEN "200" ELSE "500"]
    /\ UNCHANGED <<table, nextId, txn, server, dbconn, iconn, bcastVars>>
    /\ UNCHANGED notDB

\* DatabaseIntegration.execute_query (database_integration.py 56-79): the
\* connection has autocommit set, so a failed statement leaves nothing behind.
IntegrationConnFails == GetConnection(iconn, server) # "open"

\* DatabaseIntegration.insert_landmark. execute_query returns cursor.rowcount
\* for the INSERT, an int, and result[0]['id'] raises TypeError after the row
\* is stored; the except clause re-raises it as
\* Exception("Landmark insertion failed: ...").
InsertLandmark(l) ==
    /\ ~CrudBusy
    /\ nextId <= MaxRows
    /\ LET w == WktOf(l.geometry)
           out == Queried([DbNone EXCEPT !.op = "create", !.via = "integration",
                                         !.input = l], iconn)
       IN  IF IntegrationConnFails \/ ~WktValid(w)
           THEN /\ dbOut' = [out EXCEPT !.status = "raised"]
                /\ UNCHANGED <<table, nextId>>
           ELSE /\ table' = [table EXCEPT ![nextId] =
                                Landmark(l.name, l.description, l.landmark_type,
                                         GeomFromText(w))]
                /\ nextId' = nextId + 1
                /\ dbOut' = [out EXCEPT !.status = "raised", !.rows = 1,
                                        !.changed = TRUE]
    /\ iconn' = ConnAfterQuery(GetConnection(iconn, server))
    /\ UNCHANGED <<txn, server, dbconn, bcastVars>>
    /\ UNCHANGED notDB

\* DatabaseIntegration.delete_landmark: return result > 0.
IntegrationDelete(id) ==
    /\ ~CrudBusy
    /\ LET out == Queried([DbNone EXCEPT !.op = "delete", !.via = "integration",
                                         !.target = id,
                                         !.found = (table[id] # NoRow)], iconn)
       IN  IF IntegrationConnFails
           THEN /\ dbOut' = [out EXCEPT !.status = "raised"]
                /\ UNCHANGED table
           ELSE /\ table' = Deleted(id)
                /\ dbOut' = [out EXCEPT !.status = "returned", !.rows = RowCount(id),
                                !.ret = IF RowCount(id) > 0 THEN "True" ELSE "False",
                                !.changed = (Deleted(id) # table)]
    /\ iconn' = ConnAfterQuery(GetConnection(iconn, server))
    /\ UNCHANGED <<nextId, txn, server, dbconn, bcastVars>>
    /\ UNCHANGED notDB

\* The feature collections handed to import_from_geojson: each feature with
\* its properties (name, description, type) and its geometry.
ImportCollections ==
    {<<>>, <<PointCafe>>, <<PointCafe, PointPark>>, <<LineRoad, PointCafe>>,
     <<PolygonLake, LineRoad>>}

\* import_from_geojson, the features it hands to insert_landmark: those of
\* type Point with at least two coordinates; every other feature is skipped.
ImportedFeatures(coll) ==
    LET IsPoint(l) == l.geometry.type = "Point" /\ Len(l.geometry.coordinates) >= 2
    IN  SelectSeq(coll, IsPoint)

StoredRows(t) == Cardinality({id \in RowIds : t[id] # NoRow})

\* DatabaseIntegration.import_from_geojson. With no Point feature the loop
\* inserts nothing and 0 is returned. Otherwise the first Point feature goes to
\* insert_landmark, which stores the row and then raises on result[0]['id'];
\* the exception leaves the loop and is re-raised as
\* Exception("GeoJSON import failed: ..."), so no later feature is reached.
ImportFromGeojson(coll) ==
    /\ ~CrudBusy
    /\ nextId <= MaxRows
    /\ LET points == ImportedFeatures(coll)
           out == [DbNone EXCEPT !.op = "import", !.via = "integration",
                                 !.coll = coll, !.prior = StoredRows(table)]
       IN  IF points = <<>>
           THEN /\ dbOut' = [out EXCEPT !.status = "returned", !.ret = "0"]
                /\ UNCHANGED <<table, nextId, iconn>>
           ELSE LET l == points[1]
                    w == PointWkt(l.geometry)
                IN  /\ IF IntegrationConnFails \/ ~WktValid(w)
                       THEN /\ dbOut' = [Queried(out, iconn) EXCEPT !.status = "raised"]
                            /\ UNCHANGED <<table, nextId>>
                       ELSE /\ table' = [table EXCEPT ![nextId] =
                                            Landmark(l.name, l.description,
                                                     l.landmark_type, GeomFromText(w))]
                            /\ nextId' = nextId + 1
                            /\ dbOut' = [Queried(out, iconn) EXCEPT
                                            !.status = "raised", !.rows = 1,
                                            !.changed = TRUE]
                    /\ iconn' = ConnAfterQuery(GetConnection(iconn, server))
    /\ UNCHANGED <<txn, server, dbconn, bcastVars>>
    /\ UNCHANGED notDB

\* export_to_geojson: one feature per row get_landmarks selects (ORDER BY
\* created_at DESC), carrying the row's name, description and type as
\* properties and its geometry as ST_AsGeoJSON gives it.
RECURSIVE ExportFrom(_, _)
ExportFrom(t, id) ==
    IF id = 0 THEN <<>>
    ELSE (IF t[id] = NoRow THEN <<>> ELSE <<t[id]>>) \o ExportFrom(t, id - 1)

ExportToGeojson(t) == ExportFrom(t, MaxRows)

----------------------------------------------------------------------------
Init == WsInit /\ SaInit /\ MlInit /\ DbInit /\ TpInit /\ StInit

NextWS ==
    \/ \E c \in Conns : Connect(c)
    \/ \E c \in Conns : ClientDrop(c)
    \/ \E c \in Conns : HandlerDisconnect(c)
    \/ \E c \in Conns : HandlerBadMessage(c)
    \/ \E c \in Conns, ch \in Channels : Subscribe(c, ch)
    \/ \E m \in EventTypes : BroadcastBegin(m)
    \/ BroadcastFetch
    \/ BroadcastSend
    \/ BroadcastEnd

SpecWS == Init /\ [][NextWS]_vars

NextSA ==
    \/ \E data \in Collections : LoadData(data)
    \/ \E q \in QueryPoints, n \in Limits : FindNearestLandmarks(q, n)
    \/ \E data \in Collections, q \in QueryPoints, n \in Limits :
            NearestEndpoint(data, q, n)
    \/ \E size \in GridSizes : DensityAnalysis(size)
    \/ \E speed \in TransportSpeeds : AccessibilityAnalysis(speed)
    \/ \E method \in ClusterMethods, n \in ClusterCounts : SpatialClustering(method, n)

SpecSA == Init /\ [][NextSA]_vars

NextML ==
    \/ \E d \in Deployments, files \in PriorDisks : Startup(d, files)
    \/ \E t \in TrainTypes, input \in TrainInputs : TrainRequest(t, input)
    \/ \E r \in RunIds : RunStart(r)
    \/ \E r \in RunIds : RunStepOk(r)
    \/ \E r \in RunIds : RunStepFails(r)
    \/ \E t \in PredictTypes : Predict(t)
    \/ PredictModel
    \/ PredictReturn
    \/ BroadcastEnd

SpecML == Init /\ [][NextML]_vars

NextDB ==
    \/ \E l \in Submissions : CreateLandmark(l)
    \/ \E id \in RowIds, l \in Submissions : UpdateLandmark(id, l)
    \/ \E id \in RowIds : DeleteLandmark(id)
    \/ CrudReturn
    \/ BroadcastEnd
    \/ \E l \in IntegrationInputs : InsertLandmark(l)
    \/ \E id \in RowIds : IntegrationDelete(id)
    \/ \E coll \in ImportCollections : ImportFromGeojson(coll)
    \/ ServerDown
    \/ ServerUp

SpecDB == Init /\ [][NextDB]_vars

NextTP ==
    \/ \E t \in TrainTypes, hasType \in BOOLEAN, stop \in StopPoints :
            TrainModel(t, hasType, stop)
    \/ \E t \in PredictTypes : PredictCall(t)

SpecTP == Init /\ [][NextTP]_vars

NextST ==
    \/ \E ok \in BOOLEAN : ImportPackage(ok)
    \/ DependenciesChecked
    \/ \E ok \in BOOLEAN : CheckDatabaseConnection(ok)
    \/ \E ok \in BOOLEAN : InitializeDatabase(ok)
    \/ StartApplication
    \/ \E how \in {"returned", "raised", "interrupted"} : ApplicationEnds(how)
    \/ StartupInterrupted

SpecST == Init /\ [][NextST]_vars

----------------------------------------------------------------------------
(* C1: when a broadcast has returned, every subscriber that was listed when *)
(* it started, whose own delivery did not fail and whose connection is     *)
(* still open, has received the message, whichever other deliveries failed. *)
C1_OthersStillReceive ==
    bcast.pc = "done" =>
        \A c \in bcastStart :
            (c \notin bcastFailed /\ sock[c] = "open") => c \in delivered

----------------------------------------------------------------------------
SortedByDistance(out) ==
    \A i \in 1..(Len(out) - 1) : out[i].distance_km <= out[i + 1].distance_km

NearestAnswered ==
    /\ saOut.op = "nearest"
    /\ saOut.status \in {"ok", "200"}
    /\ saOut.coll # <<>>

(* C7 (as stated): for every non-empty collection and every requested      *)
(* limit, the nearest result is sorted by non-decreasing distance and its   *)
(* length is min(limit, collection size).                                   *)
C7_SortedAndSizedAnyLimit ==
    NearestAnswered =>
        /\ SortedByDistance(saOut.out)
        /\ Len(saOut.out) = Min(saOut.n, saOut.size)

(* C7 (amended): for every non-empty collection that loads and every        *)
(* non-negative limit, the nearest result is sorted by non-decreasing       *)
(* distance and its length is min(limit, collection size); for a negative   *)
(* limit n the result is sorted and holds the first max(0, size + n) rows.  *)
C7_SortedAndSized ==
    NearestAnswered =>
        /\ SortedByDistance(saOut.out)
        /\ saOut.n >= 0 => Len(saOut.out) = Min(saOut.n, saOut.size)
        /\ saOut.n < 0 => Len(saOut.out) = Max(0, saOut.size + saOut.n)

\* The endpoint answered a query over three features with limit 2, and the
\* nearest feature is not the first one submitted.
C7_Witness ==
    /\ NearestAnswered
    /\ saOut.via = "endpoint"
    /\ saOut.size = 3
    /\ saOut.n = 2
    /\ Len(saOut.out) = 2
    /\ saOut.out[1].idx = 3
    /\ saOut.out[1].distance_km < saOut.out[2].distance_km

(* C8: a nearest query over an empty feature collection returns an empty   *)
(* result as a success, at the analyzer (load_data then                     *)
(* find_nearest_landmarks) and at the /api/spatial/nearest endpoint.        *)
C8_EmptyCollectionEmptyResult ==
    (saOut.op = "nearest" /\ saOut.coll = <<>>) =>
        /\ saOut.status \in {"ok", "200"}
        /\ saOut.out = <<>>

\* The closed cell, boundary included.
CellTouches(cell, size, p) ==
    /\ cell.lon <= p.lon /\ p.lon <= cell.lon + size
    /\ cell.lat <= p.lat /\ p.lat <= cell.lat + size

\* No centroid lies on a boundary shared by two cells of the grid.
NoCentroidBetweenCells(rows, size) ==
    LET cells == GridCells(rows, size)
    IN  \A i \in 1..Len(rows) :
            Cardinality({k \in 1..Len(cells) : CellTouches(cells[k], size, rows[i])}) <= 1

RECURSIVE SumCounts(_)
SumCounts(out) ==
    IF out = <<>> THEN 0 ELSE Head(out).landmark_count + SumCounts(Tail(out))

(* C9: in density_analysis the landmark counts of the reported cells sum   *)
(* to the number of features, whenever no centroid lies on a boundary       *)
(* between two cells.                                                       *)
C9_CountsSumToTotal ==
    (/\ saOut.op = "density"
     /\ saOut.status = "ok"
     /\ NoCentroidBetweenCells(saOut.coll, saOut.n)) =>
        SumCounts(saOut.out) = saOut.size

\* The example of the specification: four points in the four quadrants, cells
\* of half the extent's edge; four occupied cells of count 1 are expected.
C9_QuadrantExample ==
    (saOut.op = "density" /\ saOut.coll = QuadrantExample /\ saOut.n = 2) =>
        /\ Len(saOut.out) = 4
        /\ \A k \in 1..Len(saOut.out) : saOut.out[k].landmark_count = 1

----------------------------------------------------------------------------
\* The artefacts the predictor holds in memory under any name.
HeldInMemory ==
    {models[t] : t \in AllTypes} \cup {scalers[t] : t \in AllTypes}
        \cup {encoders[t] : t \in AllTypes}

(* C2: when train(collection, model_type) has failed, at whatever step, the *)
(* predictor holds in memory nothing that this call produced: the model,    *)
(* scaler and encoder under every name are those from before the call.      *)
C2_FailedTrainingLeavesMemory ==
    \A r \in RunIds : run[r].state = "failed" => ArtefactOf(r) \notin HeldInMemory

(* C3: a prediction made with a model trained in this process uses the      *)
(* scaler of the same training run, in every interleaving of predict with a *)
(* background training run.                                                 *)
C3_ModelAndScalerSameRun ==
    (predOut.outcome = "prediction" /\ TrainedHere(predOut.model)) =>
        predOut.scaler = predOut.model

\* No training of the name has been requested in this process.
NeverTrained(t) == \A r \in RunIds : run[r].type # t

C10_AckIndependentOfRun ==
    \A r \in RunIds :
        /\ run[r].state \in {"queued", "running", "done", "failed"}
              => resp[r] = "training_in_progress"
        /\ run[r].state = "rejected" => resp[r] = "500"
        /\ run[r].state = "none" => resp[r] = "none"

\* An acknowledged run has failed, after it had stored its model, and the
\* failure has been broadcast.
C10_Witness ==
    \E r \in RunIds :
        /\ run[r].state = "failed"
        /\ resp[r] = "training_in_progress"
        /\ models[run[r].type] = ArtefactOf(r)
        /\ bcast.pc = "done"
        /\ bcast.msg = "model_training_failed"

----------------------------------------------------------------------------
(* C5: every create of a landmark (point, line or polygon) returns the      *)
(* identifier of the row it created, and fetching by that identifier right  *)
(* afterwards returns the name, description, type and geometry submitted,   *)
(* after any sequence of earlier creates and deletes.                       *)
C5_CreateThenFetch ==
    (dbOut.op = "create" /\ dbOut.status # "broadcasting"
        /\ dbOut.input \in Submissions) =>
        /\ dbOut.status \in {"200", "returned"}
        /\ dbOut.id \in RowIds
        /\ FetchById(dbOut.id) = dbOut.input

\* A delete request was made for an identifier that matched no stored row.
DeleteOfMissing == dbOut.op = "delete" /\ ~dbOut.found

(* C6 (as stated): deleting an identifier that matches no stored record     *)
(* reports zero rows affected as a normal, non-error outcome and leaves the *)
(* store unchanged.                                                         *)
C6_DeleteMissingIsNoError ==
    DeleteOfMissing =>
        /\ dbOut.status \in {"200", "returned"}
        /\ dbOut.rows = 0
        /\ ~dbOut.changed

(* C6 (amended): deleting an identifier that matches no stored record       *)
(* leaves the store unchanged and broadcasts nothing.                       *)
(* DatabaseIntegration.delete_landmark reports it as a normal outcome: it   *)
(* returns False, for zero rows affected; it raises only when it has no     *)
(* usable connection. The DELETE /api/landmarks/{id} handler of app.py      *)
(* reports it as an error: it answers with status 500.                      *)
C6_DeleteMissing ==
    DeleteOfMissing =>
        /\ ~dbOut.changed
        /\ dbOut.rows = 0
        /\ dbOut.via = "integration" =>
                \/ dbOut.status = "returned" /\ dbOut.ret = "False"
                \/ dbOut.status = "raised" /\ iconn \in {"none", "closed"}
        /\ dbOut.via = "app" => dbOut.status = "500"

\* The handler of app.py has been asked to delete a missing identifier, on a
\* connection whose transaction is not aborted, from a store that holds
\* another row.
C6_Witness ==
    /\ DeleteOfMissing
    /\ dbOut.via = "app"
    /\ dbOut.status = "500"
    /\ dbOut.detail = "404"
    /\ txn = "idle"
    /\ \E i \in RowIds : table[i] # NoRow /\ i # dbOut.target

----------------------------------------------------------------------------
(* C11: every background training run that ends posts one notification on   *)
(* the notification channel as it ends: model_training_completed when       *)
(* train_model returned, model_training_failed when it raised.              *)
C11_EndedRunPostsNotification ==
    [][\A r \in RunIds :
        /\ (run[r].state = "running" /\ run'[r].state = "done") =>
                (bcast'.pc = "iter" /\ bcast'.msg = "model_training_completed")
        /\ (run[r].state = "running" /\ run'[r].state = "failed") =>
                (bcast'.pc = "iter" /\ bcast'.msg = "model_training_failed")]_vars

----------------------------------------------------------------------------
\* A background training run is inside train_model.
TrainingInProgress == \E r \in RunIds : run[r].state = "running"

(* C12: while a background training run is in progress, a predict request   *)
(* and a CRUD request that arrive are served: their handlers can run now,   *)
(* without waiting for the training run to end.                             *)
C12_ServedWhileTraining ==
    (TrainingInProgress /\ predOut.op = "none" /\ ~CrudBusy) =>
        /\ ENABLED (\E t \in PredictTypes : Predict(t))
        /\ ENABLED (\E id \in RowIds : DeleteLandmark(id))

----------------------------------------------------------------------------
(* C13: a client that is connected and has declared interest in a channel   *)
(* receives every event broadcast afterwards, whatever its type: when a     *)
(* broadcast has returned, every subscriber that was listed when it started *)
(* and whose connection is healthy has received the message.                *)
C13_SubscriberReceivesEveryEvent ==
    bcast.pc = "done" =>
        \A c \in bcastStart :
            (subscribed[c] # {} /\ sock[c] = "open" /\ handler[c] = "running")
                => c \in delivered

----------------------------------------------------------------------------
\* The connection attribute of the client the last call went through.
ConnectionOf(via) == IF via = "app" THEN dbconn ELSE iconn

(* C14: a query that finds its client's connection absent or closed makes   *)
(* exactly one connect attempt; a query that finds a connection object      *)
(* makes none. When the attempt fails the query fails with a database error *)
(* (status 500 from app.py, an exception from DatabaseIntegration), changes *)
(* nothing in the store, and leaves the connection absent for the next      *)
(* query to try again.                                                      *)
C14_OneReconnectAttempt ==
    (dbOut.op # "none" /\ dbOut.conn # "unused") =>
        /\ dbOut.conn \in {"open", "lost"} => dbOut.attempts = 0
        /\ dbOut.conn \in {"none", "closed"} =>
                /\ dbOut.attempts = 1
                /\ ConnectionOf(dbOut.via) # "closed"
                /\ ConnectionOf(dbOut.via) = "none" =>
                        /\ dbOut.status \in {"500", "raised"}
                        /\ ~dbOut.changed

\* After the server went away, one query of app.py lost its connection and
\* the next one has just tried once to reconnect and failed.
C14_Witness ==
    /\ dbOut.via = "app"
    /\ dbOut.conn = "closed"
    /\ dbOut.attempts = 1
    /\ dbOut.status = "500"
    /\ dbconn = "none"
    /\ server = "down"

----------------------------------------------------------------------------
(* C15: update requests for one identifier are applied in arrival order and *)
(* each commits on its own: when an update of a stored row with a point     *)
(* geometry, sent over a working connection, has completed, the stored      *)
(* record holds exactly the values of that update, the last to arrive.      *)
C15_LastUpdateWins ==
    (/\ dbOut.op = "update" /\ dbOut.via = "app"
     /\ dbOut.status # "broadcasting"
     /\ dbOut.found
     /\ dbOut.conn = "open"
     /\ dbOut.input.geometry.type = "Point") =>
        FetchById(dbOut.target) = dbOut.input

----------------------------------------------------------------------------
(* C16: loading a feature collection with a feature whose geometry is       *)
(* missing or malformed fails with an error the caller can tell from a      *)
(* successful load: load_data raises, it never returns a table or an empty  *)
(* value.                                                                   *)
C16_MalformedLoadRaises ==
    (/\ saOut.op = "load" /\ saOut.via = "analyzer"
     /\ \E i \in 1..Len(saOut.coll) : ~saOut.coll[i].valid) =>
        saOut.status = "raised"

(* C17: feature collections are not cached between requests: an analysis    *)
(* call that follows a load_data call is computed from the collection of    *)
(* that call when it succeeded, and from no collection of an earlier        *)
(* request when it failed.                                                  *)
C17_NoCollectionFromEarlierRequest ==
    [][(/\ saOut.op = "load"
        /\ saOut'.op = "nearest" /\ saOut'.via = "analyzer") =>
            saOut'.coll = IF saOut.status = "ok" THEN saOut.coll ELSE <<>>]_vars

(* C18: when a route handler deliberately signals a client error, here      *)
(* status 400 because the submitted collection failed to load, the response *)
(* delivered to the client carries that status.                             *)
C18_ClientErrorStatusDelivered ==
    (/\ saOut.op = "nearest" /\ saOut.via = "endpoint"
     /\ LoadReturnsNone(saOut.coll)) =>
        saOut.status = "400"

----------------------------------------------------------------------------
(* C19: round trip: a feature collection imported into an empty table and   *)
(* exported again has the same number of features and the same set of       *)
(* geometries (hence of centroid coordinates), for any mix of point, line   *)
(* and polygon features.                                                    *)
C19_RoundTripKeepsFeatures ==
    (/\ dbOut.op = "import"
     /\ dbOut.prior = 0
     /\ dbOut.conn \in {"open", "unused"}) =>
        LET exported == ExportToGeojson(table)
        IN  /\ Len(exported) = Len(dbOut.coll)
            /\ {exported[i].geometry : i \in 1..Len(exported)} =
                    {dbOut.coll[i].geometry : i \in 1..Len(dbOut.coll)}

----------------------------------------------------------------------------
(* C20: accessibility_analysis never gives a feature with a smaller mean    *)
(* distance to the others a smaller score than one with a larger mean       *)
(* distance, and for the three points (0,0), (1,0), (2,0) the middle one    *)
(* scores strictly higher than either endpoint.                             *)
C20_ScoreFollowsMeanDistance ==
    (saOut.op = "accessibility" /\ saOut.status = "ok") =>
        /\ \A i, j \in 1..Len(saOut.coll) :
                SumDistances(saOut.coll, i) < SumDistances(saOut.coll, j) =>
                    saOut.out[i].accessibility_score >= saOut.out[j].accessibility_score
        /\ saOut.coll = LineExample =>
                /\ saOut.out[2].accessibility_score > saOut.out[1].accessibility_score
                /\ saOut.out[2].accessibility_score > saOut.out[3].accessibility_score

C20_Witness ==
    /\ saOut.op = "accessibility" /\ saOut.status = "ok"
    /\ saOut.coll = LineExample
    /\ saOut.out[2].accessibility_score = 89
    /\ saOut.out[1].accessibility_score = 60
    /\ saOut.cells = 2

----------------------------------------------------------------------------
(* C23: ConnectionManager.broadcast never raises, under any interleaving    *)
(* with connects and disconnects of subscribers while it is suspended on a  *)
(* send.                                                                    *)
C23_BroadcastNeverRaises == bcast.pc # "raised"

(* C24: once the WebSocket handler of a connection has terminated, for any  *)
(* reason, the connection is no longer in active_connections, and every     *)
(* listed connection is listed once.                                        *)
C24_EndedHandlerNotListed ==
    /\ \A c \in Conns : handler[c] = "ended" => c \notin Range(active_connections)
    /\ \A i, j \in 1..Len(active_connections) :
            active_connections[i] = active_connections[j] => i = j

(* C25: a landmark_created, landmark_updated or landmark_deleted            *)
(* notification is broadcast only after the corresponding write has         *)
(* committed: when a handler enters the broadcast, its statement ran on a   *)
(* transaction that is not aborted, it affected a row (the created row is   *)
(* stored, the updated or deleted row existed), and the table holds the     *)
(* outcome of the write.                                                    *)
LandmarkEvents == {"landmark_created", "landmark_updated", "landmark_deleted"}

C25_NotifiedOnlyAfterCommit ==
    [][(bcast' # bcast /\ bcast'.pc = "iter" /\ bcast'.idx = 0
            /\ bcast'.msg \in LandmarkEvents) =>
        /\ dbOut'.status = "broadcasting" /\ dbOut'.via = "app"
        /\ txn' = "idle"
        /\ dbOut'.rows >= 1
        /\ bcast'.msg = "landmark_created" =>
                /\ dbOut'.op = "create"
                /\ table'[nextId] # NoRow /\ table[nextId] = NoRow
        /\ bcast'.msg = "landmark_updated" =>
                /\ dbOut'.op = "update" /\ dbOut'.found
                /\ table'[dbOut'.target] =
                        Landmark(dbOut'.input.name, dbOut'.input.description,
                                 dbOut'.input.landmark_type,
                                 GeomFromText(PointWkt(dbOut'.input.geometry)))
        /\ bcast'.msg = "landmark_deleted" =>
                /\ dbOut'.op = "delete" /\ dbOut'.found
                /\ table'[dbOut'.target] = NoRow]_vars

C25_Witness ==
    /\ bcast.pc = "iter" /\ bcast.msg = "landmark_deleted"
    /\ dbOut.status = "broadcasting" /\ dbOut.op = "delete" /\ dbOut.found
    /\ table[dbOut.target] = NoRow

(* C26: a query that fails on the shared DatabaseManager connection does    *)
(* not affect later queries: between requests the connection never holds an *)
(* aborted transaction, and a request with a valid point geometry that      *)
(* finds the connection open is not answered 500 by the database.           *)
C26_FailedQueryLeavesNoTrace ==
    /\ txn # "aborted"
    /\ (/\ dbOut.op = "create" /\ dbOut.via = "app"
        /\ dbOut.conn = "open"
        /\ dbOut.input.geometry.type = "Point") =>
            dbOut.changed

(* C27: DatabaseIntegration.insert_landmark returns the identifier of the   *)
(* stored row or raises with the store unchanged: it never raises after the *)
(* row has been persisted.                                                  *)
C27_InsertRaisesOnlyUnchanged ==
    (dbOut.op = "create" /\ dbOut.via = "integration") =>
        /\ dbOut.status = "raised" => ~dbOut.changed
        /\ dbOut.changed => dbOut.status = "returned"

(* C28: the count import_from_geojson returns is the number of rows the     *)
(* call added, and a call that raises has added none.                       *)
C28_ImportCountIsRowsAdded ==
    dbOut.op = "import" =>
        /\ dbOut.status = "raised" => StoredRows(table) = dbOut.prior
        /\ dbOut.status = "returned" =>
                /\ StoredRows(table) = dbOut.prior + dbOut.rows
                /\ dbOut.ret = "0" <=> dbOut.rows = 0

----------------------------------------------------------------------------
(* C21: density-based clustering of a loaded collection gives a result in   *)
(* which no feature labelled noise is a member of, or counted in, any       *)
(* cluster of the per-cluster statistics.                                   *)
NoiseLabel == -1

----------------------------------------------------------------------------
(* C22: after train_model has returned successfully for a model_type, a     *)
(* predict for that model_type in the same process succeeds and uses the    *)
(* model and the scaler that the most recent successful training of that    *)
(* name produced.                                                           *)
SuccessfulTrainings(t) ==
    {k \in 1..Len(trained) : trained[k].type = t /\ trained[k].ok}

LastTrained(t) ==
    LET ks == SuccessfulTrainings(t)
    IN  IF ks = {} THEN 0
        ELSE trained[CHOOSE k \in ks : \A j \in ks : j <= k].artefact

C22_PredictUsesLastTraining ==
    (predOut.op = "predict" /\ LastTrained(predOut.type) # 0) =>
        /\ predOut.outcome = "prediction"
        /\ predOut.model = LastTrained(predOut.type)
        /\ predOut.scaler = LastTrained(predOut.type)

----------------------------------------------------------------------------
(* C30: AppStarter.run starts the application only after the dependency     *)
(* check, the database connection check and the database initialization     *)
(* have each succeeded, in that order (so with no required module missing); *)
(* when one of them fails the process exits with status 1 and the           *)
(* application is never started.                                            *)
IsPrefix(p, q) == Len(p) <= Len(q) /\ SubSeq(q, 1, Len(p)) = p

C30_StartsOnlyAfterChecks ==
    /\ IsPrefix(starter.passed, ChecksInOrder)
    /\ starter.app # "not_started" =>
            /\ starter.passed = ChecksInOrder
            /\ starter.missing = {}
            /\ starter.failed = "none"
    /\ starter.failed # "none" =>
            /\ starter.pc = "exited" /\ starter.exit = "1"
            /\ starter.app = "not_started"
    /\ starter.missing # {} => starter.passed = <<>>

C30_Witness ==
    /\ starter.app = "serving"
    /\ starter.passed = ChecksInOrder

=============================================================================
